---- MODULE Spec2Model ----
(***************************************************************************)
(* State-machine model of the NodeMCU pulse-oximeter firmware              *)
(* (NodeMCU-Pulse-Oxymeter.ino): the cooperative control loop, the HTTP    *)
(* handlers it services at every server.handleClient() call site, the      *)
(* staged sampling and the averaging/classification of the result.         *)
(*                                                                         *)
(* The firmware is single threaded.  A handler can only run inside a call  *)
(* of server.handleClient(); the code between two such calls is atomic.    *)
(* pc names the call site the firmware is at ("x") or the point just after *)
(* that call returned ("x_ret").                                           *)
(*                                                                         *)
(* The mobile client is modelled next to it: the SensorScreen of           *)
(* app/sensor.tsx (ClientSpec) and its helpers withRetry (RetrySpec) and   *)
(* assess (AssessSpec).  ErrSpec is the sensor-error loop of setup() with  *)
(* its scheduling.  Each specification leaves the other parts as they are. *)
(***************************************************************************)
EXTENDS Integers, Sequences, FiniteSets, TLC

\* ---------------------------------------------------------------------------
\* Program constants
\* ---------------------------------------------------------------------------
IR_FINGER_THRESHOLD == 50000
TOTAL_SAMPLES == 5
\* A schedule whose last window is one sample larger than the buffers.
sampleCounts_Overflow == <<50, 60, 70, 80, 91>>

sampleCounts == <<50, 60, 70, 80, 90>>
MAX_BUFFER == 90
COUNTDOWN_SECONDS == 3
NAME_CAPACITY == 32

\* avgHR / avgSpO2 are floats holding sum / count with count in 1..5.  The
\* model keeps them exactly, as integers in units of 1/Scale (60 is a
\* multiple of every possible count).
Scale == 60

\* ---------------------------------------------------------------------------
\* Bounds of the model
\* ---------------------------------------------------------------------------
\* Largest number of iterations of one timed wait (yieldFor, one countdown
\* second, the result hold); the wait may end after any smaller number >= 1.
MaxTicks == 2

\* Requests of one kind the client has in flight at once, timers alive at
\* once and documents written.
MaxInFlight == 2

\* Presses of the Start button of the client.
MaxPresses == 2

\* Largest retries argument of withRetry.
MaxRetries == 3

\* ---------------------------------------------------------------------------
\* Inputs
\* ---------------------------------------------------------------------------
\* Raw infrared intensity read by sensor.getIR() in fingerPresent().
IRValues == {IR_FINGER_THRESHOLD, IR_FINGER_THRESHOLD + 1}

\* What maxim_heart_rate_and_oxygen_saturation can return for the finger on
\* the sensor: for each metric a set of <<value, validity flag>> pairs.  The
\* estimator is opaque; the subject fixes the outputs it can produce.
Est(v, f) == <<v, f>>
Subjects ==
  { [hr |-> {Est(100, 1), Est(101, 1)}, spo2 |-> {Est(98, 1)}],
    [hr |-> {Est(72, 1), Est(73, 1)},   spo2 |-> {Est(98, 1)}],
    [hr |-> {Est(72, 1)},               spo2 |-> {Est(98, 1), Est(92, 1)}],
    [hr |-> {Est(110, 1)},              spo2 |-> {Est(97, 1)}],
    [hr |-> {Est(72, 1), Est(72, 0)},   spo2 |-> {Est(98, 1)}],
    [hr |-> {Est(72, 1)},               spo2 |-> {Est(98, 1), Est(98, 0)}],
    [hr |-> {Est(40, 1), Est(39, 1)},   spo2 |-> {Est(80, 1)}],
    [hr |-> {Est(220, 1), Est(221, 1)}, spo2 |-> {Est(100, 1)}],
    [hr |-> {Est(72, 1)},               spo2 |-> {Est(80, 1), Est(79, 1)}],
    [hr |-> {Est(72, 1)},               spo2 |-> {Est(100, 1), Est(101, 1)}],
    [hr |-> {Est(0 - 999, 0)},          spo2 |-> {Est(0 - 999, 0)}] }

\* Bodies of a POST /start request.
NoBody   == [kind |-> "none"]
BadJson  == [kind |-> "invalid"]
NoName   == [kind |-> "object"]
Named(n) == [kind |-> "name", name |-> n]
Bodies   == {NoBody, BadJson, NoName, Named(<<"A">>)}

VARIABLES
  pc,               \* position of the firmware in setup()/loop()
  running, hadFinger, cancelRequested,
  validHRCount, validSpO2Count,
  hrReadings, spo2Readings,
  avgHR, avgSpO2,   \* in units of 1/Scale
  patientName,      \* sequence of characters
  statusMsg,        \* <<format, arguments...>> of the last snprintf
  heartRate, hrValid, spo2, spo2Valid,   \* estimator outputs
  stage,            \* i of the stage loop in loop()
  sample,           \* i of the sample loop in takeSingleReading()
  count,            \* i of interruptibleCountdown()
  t,                \* iterations done of the timed wait in progress
  response,         \* what the last handleClient() call sent
  subject,          \* the outputs the estimator can produce (environment)
  \* SensorScreen of the mobile client (app/sensor.tsx)
  measuring, data, saveState, error,   \* React state; data is <<>> for null
  intervalRef,      \* intervalRef.current holds a timer
  timers,           \* setInterval timers that have not been cleared
  starts, polls, cancels,   \* requests to the device awaiting their outcome
  saves,            \* documents handed to addDoc, awaiting their outcome
  records,          \* documents in the patient's records collection
  currentUser,      \* auth.currentUser is set
  patientId,        \* the route carries a patientId
  presses,          \* times handleStart of the screen has run
  cancelled,        \* handleCancel has run since the last handleStart
  \* One call of withRetry(fn, retries, delayMs) of the client (esp.ts)
  retries, delayMs, \* its arguments
  attempt,          \* i of its for loop
  retryPc,          \* where the call is
  attempts,         \* outcome of each call of fn made so far
  waited,           \* milliseconds spent in its setTimeout waits
  outcome,          \* <<>> while pending, else what the promise settled to
  \* One call of assess(hr, spo2) of the client (app/assessment.ts)
  reading,          \* its arguments
  assessment        \* <<>> before the call, else <<what it returned>>

session == <<running, hadFinger, cancelRequested, validHRCount,
             validSpO2Count, hrReadings, spo2Readings, avgHR, avgSpO2,
             patientName>>
estimator == <<heartRate, hrValid, spo2, spo2Valid>>
locals == <<stage, sample, count, t>>
firmware == <<pc, session, statusMsg, estimator, locals, response, subject>>
screen == <<measuring, data, saveState, error, intervalRef, timers, starts,
            polls, cancels, saves, records, currentUser, patientId,
            presses, cancelled>>
library == <<retries, delayMs, attempt, retryPc, attempts, waited, outcome,
             reading, assessment>>
vars == <<firmware, screen, library>>

\* Indices of hrReadings / spo2Readings (C arrays, from 0).
Stages == 0..(TOTAL_SAMPLES - 1)
Zeros == [i \in Stages |-> 0]
EmptyName == <<>>

\* ---------------------------------------------------------------------------
\* handleClient call sites
\* ---------------------------------------------------------------------------
RetOf == [err |-> "err_ret", loop |-> "loop_ret", nofinger |-> "nofinger_ret",
          greet |-> "greet_ret", count |-> "count_ret", stage |-> "stage_ret",
          sample |-> "sample_ret", avail |-> "avail_ret", post |-> "post_ret",
          pause |-> "pause_ret", hold |-> "hold_ret"]
CallSites == DOMAIN RetOf

NoResponse == [op |-> "none"]
Ack(o) == [op |-> o, code |-> 200, body |-> "{\"ok\":true}"]

\* ---------------------------------------------------------------------------
\* Pure helpers
\* ---------------------------------------------------------------------------
Min(a, b) == IF a < b THEN a ELSE b

\* strlcpy(dst, src, size): at most size - 1 characters are copied.
Strlcpy(src, size) == SubSeq(src, 1, Min(Len(src), size - 1))

\* The label handleStart stores for a request body.
LabelOf(body) ==
  IF body.kind = "name" THEN Strlcpy(body.name, NAME_CAPACITY) ELSE EmptyName

fingerPresent(ir) == ir > IR_FINGER_THRESHOLD

\* The three-way rule of handleJSON / displayResults on the float averages.
Classify(hr, sp) ==
  IF sp >= 95 * Scale /\ hr >= 60 * Scale /\ hr <= 100 * Scale THEN "Normal"
  ELSE IF sp >= 90 * Scale THEN "Warning"
  ELSE "Critical"

\* handleJSON testing the averages before the running flag.
StatusOf_AveragesFirst(run, hr, sp) ==
  IF hr = 0 /\ sp = 0 THEN "idle"
  ELSE IF run THEN "measuring"
  ELSE Classify(hr, sp)

\* The status string of handleJSON.
StatusOf(run, hr, sp) ==
  IF ~run /\ hr = 0 /\ sp = 0 THEN "idle"
  ELSE IF run THEN "measuring"
  ELSE Classify(hr, sp)

\* (int) conversion of a non-negative float average.
ToInt(x) == x \div Scale

\* The JSON document handleJSON sends.
Snapshot ==
  [heartRate    |-> ToInt(avgHR),
   spo2         |-> ToInt(avgSpO2),
   hrValid      |-> validHRCount,
   spo2Valid    |-> validSpO2Count,
   totalSamples |-> TOTAL_SAMPLES,
   running      |-> running,
   status       |-> StatusOf(running, avgHR, avgSpO2)]

\* The heart-rate filter without the test of the validity flag.
AcceptHR_NoFlag(v, f) == v >= 40 /\ v <= 220

\* Plausibility filters of takeSingleReading.
AcceptHR(v, f) == f # 0 /\ v >= 40 /\ v <= 220

\* The saturation filter accepting only next to a valid heart rate.
AcceptSpO2_NeedsHR(v, f) == hrValid' # 0 /\ f # 0 /\ v >= 80 /\ v <= 100

\* The saturation filter of takeSingleReading.
AcceptSpO2(v, f) == f # 0 /\ v >= 80 /\ v <= 100

\* Sum of the entries r[0..n-1] that are > 0 (the loop of calculateAverages).
RECURSIVE SumPositive(_, _)
SumPositive(r, n) ==
  IF n = 0 THEN 0
  ELSE SumPositive(r, n - 1) + (IF r[n - 1] > 0 THEN r[n - 1] ELSE 0)

\* calculateAverages with an off-by-one test of the counter.
Average_OffByOne(r, cnt) ==
  IF cnt > 1 THEN (SumPositive(r, TOTAL_SAMPLES) * Scale) \div cnt ELSE 0

\* sum / cnt as calculateAverages computes it, 0 when cnt is 0.
Average(r, cnt) ==
  IF cnt > 0 THEN (SumPositive(r, TOTAL_SAMPLES) * Scale) \div cnt ELSE 0

\* ---------------------------------------------------------------------------
\* Initial state: setup() has finished.  Either the sensor answered and
\* loop() is about to run, or it did not and setup() is in its error loop.
\* ---------------------------------------------------------------------------
Boot ==
  /\ pc \in {"loop", "err"}
  /\ statusMsg = IF pc = "loop" THEN <<"Idle">> ELSE <<"ERROR: No sensor">>
  /\ running = FALSE /\ hadFinger = FALSE /\ cancelRequested = FALSE
  /\ validHRCount = 0 /\ validSpO2Count = 0
  /\ hrReadings = Zeros /\ spo2Readings = Zeros
  /\ avgHR = 0 /\ avgSpO2 = 0
  /\ patientName = EmptyName
  /\ heartRate = 0 /\ hrValid = 0 /\ spo2 = 0 /\ spo2Valid = 0
  /\ stage = 0 /\ sample = 0 /\ count = 0 /\ t = 0
  /\ response = NoResponse
  /\ subject \in Subjects

\* SensorScreen as first rendered: the useState/useRef initial values.
Mounted(user, patient) ==
  /\ measuring = FALSE /\ data = <<>> /\ saveState = "idle" /\ error = ""
  /\ intervalRef = FALSE /\ timers = 0
  /\ starts = 0 /\ polls = 0 /\ cancels = 0
  /\ saves = <<>> /\ records = <<>>
  /\ currentUser = user /\ patientId = patient
  /\ presses = 0 /\ cancelled = FALSE

\* withRetry not called yet, with its default arguments.
RetryIdle ==
  /\ retries = 3 /\ delayMs = 500
  /\ attempt = 0 /\ retryPc = "test"
  /\ attempts = <<>> /\ waited = 0 /\ outcome = <<>>

\* assess not called yet.
AssessIdle ==
  /\ reading = [heartRate |-> 0, spo2 |-> 0]
  /\ assessment = <<>>

Init == Boot /\ Mounted(TRUE, TRUE) /\ RetryIdle /\ AssessIdle

\* ---------------------------------------------------------------------------
\* HTTP handlers, run by server.handleClient() at a call site
\* ---------------------------------------------------------------------------
Served == /\ pc \in CallSites
          /\ pc' = RetOf[pc]
          /\ UNCHANGED <<estimator, locals, subject, screen, library>>

\* handleStart without the test of running.
handleStart_Unguarded(body) ==
  /\ Served
  /\ patientName' = LabelOf(body)
  /\ running' = TRUE
  /\ hadFinger' = FALSE
  /\ cancelRequested' = FALSE
  /\ validHRCount' = 0
  /\ validSpO2Count' = 0
  /\ avgHR' = 0
  /\ avgSpO2' = 0
  /\ hrReadings' = Zeros
  /\ spo2Readings' = Zeros
  /\ statusMsg' = <<"Starting...">>
  /\ response' = Ack("start")

\* handleStart that does not clear cancelRequested.
handleStart_KeepsCancel(body) ==
  /\ Served
  /\ IF ~running
       THEN /\ patientName' = LabelOf(body)
            /\ running' = TRUE
            /\ hadFinger' = FALSE
            /\ cancelRequested' = cancelRequested
            /\ validHRCount' = 0
            /\ validSpO2Count' = 0
            /\ avgHR' = 0
            /\ avgSpO2' = 0
            /\ hrReadings' = Zeros
            /\ spo2Readings' = Zeros
            /\ statusMsg' = <<"Starting...">>
       ELSE UNCHANGED <<session, statusMsg>>
  /\ response' = Ack("start")

\* handleStart that does not zero the averages.
handleStart_KeepsAverages(body) ==
  /\ Served
  /\ IF ~running
       THEN /\ patientName' = LabelOf(body)
            /\ running' = TRUE
            /\ hadFinger' = FALSE
            /\ cancelRequested' = FALSE
            /\ validHRCount' = 0
            /\ validSpO2Count' = 0
            /\ avgHR' = avgHR
            /\ avgSpO2' = avgSpO2
            /\ hrReadings' = Zeros
            /\ spo2Readings' = Zeros
            /\ statusMsg' = <<"Starting...">>
       ELSE UNCHANGED <<session, statusMsg>>
  /\ response' = Ack("start")

\* handleStart that answers 400 to a body that is not valid JSON.
handleStart_RejectsBadJson(body) ==
  /\ Served
  /\ IF ~running /\ body.kind # "invalid"
       THEN /\ patientName' = LabelOf(body)
            /\ running' = TRUE
            /\ hadFinger' = FALSE
            /\ cancelRequested' = FALSE
            /\ validHRCount' = 0
            /\ validSpO2Count' = 0
            /\ avgHR' = 0
            /\ avgSpO2' = 0
            /\ hrReadings' = Zeros
            /\ spo2Readings' = Zeros
            /\ statusMsg' = <<"Starting...">>
       ELSE UNCHANGED <<session, statusMsg>>
  /\ response' = IF body.kind = "invalid"
                   THEN [op |-> "start", code |-> 400, body |-> "bad request"]
                   ELSE Ack("start")

\* handleStart without the memset of the stage readings.
handleStart_KeepsReadings(body) ==
  /\ Served
  /\ IF ~running
       THEN /\ patientName' = LabelOf(body)
            /\ running' = TRUE
            /\ hadFinger' = FALSE
            /\ cancelRequested' = FALSE
            /\ validHRCount' = 0
            /\ validSpO2Count' = 0
            /\ avgHR' = 0
            /\ avgSpO2' = 0
            /\ hrReadings' = hrReadings
            /\ spo2Readings' = spo2Readings
            /\ statusMsg' = <<"Starting...">>
       ELSE UNCHANGED <<session, statusMsg>>
  /\ response' = Ack("start")

handleStart(body) ==
  /\ Served
  /\ IF ~running
       THEN /\ patientName' = LabelOf(body)
            /\ running' = TRUE
            /\ hadFinger' = FALSE
            /\ cancelRequested' = FALSE
            /\ validHRCount' = 0
            /\ validSpO2Count' = 0
            /\ avgHR' = 0
            /\ avgSpO2' = 0
            /\ hrReadings' = Zeros
            /\ spo2Readings' = Zeros
            /\ statusMsg' = <<"Starting...">>
       ELSE UNCHANGED <<session, statusMsg>>
  /\ response' = Ack("start")

\* handleCancel that ends the session itself.
handleCancel_StopsSession ==
  /\ Served
  /\ cancelRequested' = TRUE
  /\ running' = FALSE
  /\ UNCHANGED <<hadFinger, validHRCount, validSpO2Count,
                 hrReadings, spo2Readings, avgHR, avgSpO2, patientName,
                 statusMsg>>
  /\ response' = Ack("cancel")

handleCancel ==
  /\ Served
  /\ cancelRequested' = TRUE
  /\ UNCHANGED <<running, hadFinger, validHRCount, validSpO2Count,
                 hrReadings, spo2Readings, avgHR, avgSpO2, patientName,
                 statusMsg>>
  /\ response' = Ack("cancel")

\* handleJSON that consumes the cancel request it reports on.
handleJSON_ClearsCancel ==
  /\ Served
  /\ cancelRequested' = FALSE
  /\ UNCHANGED <<running, hadFinger, validHRCount, validSpO2Count,
                 hrReadings, spo2Readings, avgHR, avgSpO2, patientName,
                 statusMsg>>
  /\ response' = [op |-> "data", code |-> 200, json |-> Snapshot]

handleJSON ==
  /\ Served
  /\ UNCHANGED <<session, statusMsg>>
  /\ response' = [op |-> "data", code |-> 200, json |-> Snapshot]

\* handleClient() with no request pending.
NoRequest ==
  /\ Served
  /\ UNCHANGED <<session, statusMsg>>
  /\ response' = NoResponse

\* ---------------------------------------------------------------------------
\* Pieces of loop() shared by several steps
\* ---------------------------------------------------------------------------
\* resetMeasurement that keeps the label.
resetMeasurement_KeepsLabel ==
  /\ running' = FALSE
  /\ hadFinger' = FALSE
  /\ cancelRequested' = FALSE
  /\ validHRCount' = 0
  /\ validSpO2Count' = 0
  /\ patientName' = patientName
  /\ UNCHANGED <<hrReadings, spo2Readings, avgHR, avgSpO2>>

\* resetMeasurement(); displayIdle(); return;
resetMeasurement ==
  /\ running' = FALSE
  /\ hadFinger' = FALSE
  /\ cancelRequested' = FALSE
  /\ validHRCount' = 0
  /\ validSpO2Count' = 0
  /\ patientName' = EmptyName
  /\ UNCHANGED <<hrReadings, spo2Readings, avgHR, avgSpO2>>

Abort ==
  /\ resetMeasurement
  /\ statusMsg' = <<"Idle">>
  /\ pc' = "loop"
  /\ stage' = 0 /\ sample' = 0 /\ count' = 0 /\ t' = 0
  /\ response' = NoResponse
  /\ UNCHANGED <<estimator, subject, screen, library>>

\* A timed wait that passes its time without calling handleClient().
WaitMore_Delay(site) ==
  /\ t + 1 < MaxTicks
  /\ t' = t + 1
  /\ pc' = RetOf[site]
  /\ response' = NoResponse

\* A timed wait whose handleClient() call just returned: the time is not up
\* and the loop goes round again (at most MaxTicks iterations in all).
WaitMore(site) ==
  /\ t + 1 < MaxTicks
  /\ t' = t + 1
  /\ pc' = site
  /\ response' = NoResponse

\* displaySampling(current, total)
displaySampling(current, total) ==
  statusMsg' = <<"Sample %d of %d", current, total>>

\* ---------------------------------------------------------------------------
\* setup(): the sensor did not answer.  while (1) { handleClient(); ... }
\* ---------------------------------------------------------------------------
\* The error branch of setup() without its endless loop: setup() returns
\* and loop() starts.
SensorErrorLoop_FallsThrough ==
  /\ pc = "err_ret"
  /\ pc' = "loop"
  /\ response' = NoResponse
  /\ UNCHANGED <<session, statusMsg, estimator, locals,
                 subject, screen, library>>

SensorErrorLoop ==
  /\ pc = "err_ret"
  /\ pc' = "err"
  /\ response' = NoResponse
  /\ UNCHANGED <<session, statusMsg, estimator, locals,
                 subject, screen, library>>

\* ---------------------------------------------------------------------------
\* loop(), after the handleClient() call at its top
\* ---------------------------------------------------------------------------
\* if (!running) { if (shouldRedisplay()) displayIdle(); delay(10); return; }
LoopIdle ==
  /\ pc = "loop_ret"
  /\ ~running
  /\ statusMsg' \in {statusMsg, <<"Idle">>}
  /\ pc' = "loop"
  /\ response' = NoResponse
  /\ UNCHANGED <<session, estimator, locals, subject, screen, library>>

\* if (cancelRequested) { resetMeasurement(); displayIdle(); return; }
LoopCancel ==
  /\ pc = "loop_ret"
  /\ running
  /\ cancelRequested
  /\ Abort

\* if (!fingerPresent()) { hadFinger = false; ...; server.handleClient(); ...
LoopNoFinger ==
  /\ pc = "loop_ret"
  /\ running
  /\ ~cancelRequested
  /\ \E ir \in IRValues : ~fingerPresent(ir)
  /\ hadFinger' = FALSE
  /\ statusMsg' \in {statusMsg, <<"No finger">>}
  /\ pc' = "nofinger"
  /\ response' = NoResponse
  /\ UNCHANGED <<running, cancelRequested, validHRCount, validSpO2Count,
                 hrReadings, spo2Readings, avgHR, avgSpO2, patientName,
                 estimator, locals, subject, screen, library>>

\* ... delay(10); return; }
NoFingerReturn ==
  /\ pc = "nofinger_ret"
  /\ pc' = "loop"
  /\ response' = NoResponse
  /\ UNCHANGED <<session, statusMsg, estimator, locals,
                 subject, screen, library>>

\* Finger present.  if (!hadFinger) { hadFinger = true; displayGreeting();
\* yieldFor(800); ... } otherwise straight to the stage loop.
LoopFinger ==
  /\ pc = "loop_ret"
  /\ running
  /\ ~cancelRequested
  /\ \E ir \in IRValues : fingerPresent(ir)
  /\ IF ~hadFinger
       THEN /\ hadFinger' = TRUE
            /\ statusMsg' = <<"Ready">>
            /\ pc' = "greet"
            /\ stage' = stage
       ELSE /\ hadFinger' = hadFinger
            /\ stage' = 0
            /\ displaySampling(1, TOTAL_SAMPLES)
            /\ pc' = "stage"
  /\ t' = 0
  /\ response' = NoResponse
  /\ UNCHANGED <<running, cancelRequested, validHRCount, validSpO2Count,
                 hrReadings, spo2Readings, avgHR, avgSpO2, patientName,
                 estimator, sample, count, subject, screen, library>>

\* yieldFor(800) goes round again.
GreetingWait ==
  /\ pc = "greet_ret"
  /\ WaitMore("greet")
  /\ UNCHANGED <<session, statusMsg, estimator, stage, sample, count,
                 subject, screen, library>>

\* yieldFor(800) is over; interruptibleCountdown(3) shows its first second.
GreetingDone ==
  /\ pc = "greet_ret"
  /\ count' = COUNTDOWN_SECONDS
  /\ statusMsg' = <<"Starting in %ds", COUNTDOWN_SECONDS>>
  /\ t' = 0
  /\ pc' = "count"
  /\ response' = NoResponse
  /\ UNCHANGED <<session, estimator, stage, sample, subject, screen, library>>

\* interruptibleCountdown: if (cancelRequested) return false; then the
\* caller resets.
CountdownCancel ==
  /\ pc = "count_ret"
  /\ cancelRequested
  /\ Abort

\* interruptibleCountdown: the current second is not over.
CountdownWait ==
  /\ pc = "count_ret"
  /\ ~cancelRequested
  /\ WaitMore("count")
  /\ UNCHANGED <<session, statusMsg, estimator, stage, sample, count,
                 subject, screen, library>>

\* interruptibleCountdown ending after second 2.
CountdownTick_SkipsLast ==
  /\ pc = "count_ret"
  /\ ~cancelRequested
  /\ IF count > 2
       THEN /\ count' = count - 1
            /\ statusMsg' = <<"Starting in %ds", count - 1>>
            /\ pc' = "count"
            /\ stage' = stage
       ELSE /\ count' = 0
            /\ stage' = 0
            /\ displaySampling(1, TOTAL_SAMPLES)
            /\ pc' = "stage"
  /\ t' = 0
  /\ response' = NoResponse
  /\ UNCHANGED <<session, estimator, sample, subject, screen, library>>

\* interruptibleCountdown: the current second is over; next second, or
\* return true and enter the stage loop.
CountdownTick ==
  /\ pc = "count_ret"
  /\ ~cancelRequested
  /\ IF count > 1
       THEN /\ count' = count - 1
            /\ statusMsg' = <<"Starting in %ds", count - 1>>
            /\ pc' = "count"
            /\ stage' = stage
       ELSE /\ count' = 0
            /\ stage' = 0
            /\ displaySampling(1, TOTAL_SAMPLES)
            /\ pc' = "stage"
  /\ t' = 0
  /\ response' = NoResponse
  /\ UNCHANGED <<session, estimator, sample, subject, screen, library>>

\* ---------------------------------------------------------------------------
\* The stage loop of loop() and takeSingleReading(stage)
\* ---------------------------------------------------------------------------
\* The handleClient() call after displaySampling returned; takeSingleReading
\* starts its sample loop.
StageBegin ==
  /\ pc = "stage_ret"
  /\ sample' = 0
  /\ pc' = "sample"
  /\ response' = NoResponse
  /\ UNCHANGED <<session, statusMsg, estimator, stage, count, t,
                 subject, screen, library>>

\* The sample loop leaving for the estimator one sample early.
StoreSample_OneSampleShort ==
  /\ sample' = sample + 1
  /\ pc' = IF sample + 2 < sampleCounts[stage + 1] THEN "sample" ELSE "estimate"
  /\ response' = NoResponse
  /\ UNCHANGED <<session, statusMsg, estimator, stage, count, t,
                 subject, screen, library>>

\* redBuffer[i] = ...; irBuffer[i] = ...; nextSample(); i++ : either the
\* next sample of the window or, the window being full, the estimator.
StoreSample ==
  /\ sample' = sample + 1
  /\ pc' = IF sample + 1 < sampleCounts[stage + 1] THEN "sample" ELSE "estimate"
  /\ response' = NoResponse
  /\ UNCHANGED <<session, statusMsg, estimator, stage, count, t,
                 subject, screen, library>>

\* A lost finger sending the session back to wait for the finger.
SampleAbort_AwaitsFinger ==
  /\ pc = "sample_ret"
  /\ cancelRequested \/ \E ir \in IRValues : ~fingerPresent(ir)
  /\ IF cancelRequested
       THEN Abort
       ELSE /\ hadFinger' = FALSE
            /\ pc' = "nofinger"
            /\ response' = NoResponse
            /\ UNCHANGED <<running, cancelRequested, validHRCount,
                           validSpO2Count, hrReadings, spo2Readings, avgHR,
                           avgSpO2, patientName, statusMsg, estimator,
                           locals, subject, screen, library>>

\* if (cancelRequested || !fingerPresent()) return false; the caller resets.
SampleAbort ==
  /\ pc = "sample_ret"
  /\ cancelRequested \/ \E ir \in IRValues : ~fingerPresent(ir)
  /\ Abort

\* Finger present, no cancel, sensor.available(): the sample is read.
SampleReady ==
  /\ pc = "sample_ret"
  /\ ~cancelRequested
  /\ \E ir \in IRValues : fingerPresent(ir)
  /\ StoreSample

\* Finger present, no cancel, no sample yet: sensor.check();
\* server.handleClient() inside while (!sensor.available()).
SampleNotReady ==
  /\ pc = "sample_ret"
  /\ ~cancelRequested
  /\ \E ir \in IRValues : fingerPresent(ir)
  /\ pc' = "avail"
  /\ response' = NoResponse
  /\ UNCHANGED <<session, statusMsg, estimator, locals,
                 subject, screen, library>>

\* Inside the wait: if (cancelRequested) return false;
AvailCancel ==
  /\ pc = "avail_ret"
  /\ cancelRequested
  /\ Abort

\* Inside the wait: still no sample, the loop goes round again.
AvailWait ==
  /\ pc = "avail_ret"
  /\ ~cancelRequested
  /\ pc' = "avail"
  /\ response' = NoResponse
  /\ UNCHANGED <<session, statusMsg, estimator, locals,
                 subject, screen, library>>

\* Inside the wait: the sample arrived and is read.
AvailReady ==
  /\ pc = "avail_ret"
  /\ ~cancelRequested
  /\ StoreSample

\* The window is full: the estimator runs once, then both metrics are
\* filtered and recorded; takeSingleReading returns true and loop() calls
\* handleClient().
Estimate ==
  /\ pc = "estimate"
  /\ \E h \in subject.hr, s \in subject.spo2 :
       /\ heartRate' = h[1] /\ hrValid' = h[2]
       /\ spo2' = s[1] /\ spo2Valid' = s[2]
       /\ IF AcceptHR(h[1], h[2])
            THEN /\ hrReadings' = [hrReadings EXCEPT ![stage] = h[1]]
                 /\ validHRCount' = validHRCount + 1
            ELSE /\ hrReadings' = [hrReadings EXCEPT ![stage] = 0]
                 /\ validHRCount' = validHRCount
       /\ IF AcceptSpO2(s[1], s[2])
            THEN /\ spo2Readings' = [spo2Readings EXCEPT ![stage] = s[1]]
                 /\ validSpO2Count' = validSpO2Count + 1
            ELSE /\ spo2Readings' = [spo2Readings EXCEPT ![stage] = 0]
                 /\ validSpO2Count' = validSpO2Count
  /\ sample' = 0
  /\ pc' = "post"
  /\ response' = NoResponse
  /\ UNCHANGED <<running, hadFinger, cancelRequested, avgHR, avgSpO2,
                 patientName, statusMsg, stage, count, t,
                 subject, screen, library>>

\* The handleClient() call after the stage returned; yieldFor(300) starts.
StagePause ==
  /\ pc = "post_ret"
  /\ t' = 0
  /\ pc' = "pause"
  /\ response' = NoResponse
  /\ UNCHANGED <<session, statusMsg, estimator, stage, sample, count,
                 subject, screen, library>>

\* yieldFor(300) goes round again.
PauseWait ==
  /\ pc = "pause_ret"
  /\ WaitMore("pause")
  /\ UNCHANGED <<session, statusMsg, estimator, stage, sample, count,
                 subject, screen, library>>

\* The stage loop with one stage too few.
PauseDone_OneStageShort ==
  /\ pc = "pause_ret"
  /\ IF stage + 2 < TOTAL_SAMPLES
       THEN /\ stage' = stage + 1
            /\ displaySampling(stage + 2, TOTAL_SAMPLES)
            /\ pc' = "stage"
       ELSE /\ stage' = 0
            /\ statusMsg' = statusMsg
            /\ pc' = "average"
  /\ t' = 0
  /\ response' = NoResponse
  /\ UNCHANGED <<session, estimator, sample, count, subject, screen, library>>

\* yieldFor(300) is over: i++, then the next stage or the end of the loop.
PauseDone ==
  /\ pc = "pause_ret"
  /\ IF stage + 1 < TOTAL_SAMPLES
       THEN /\ stage' = stage + 1
            /\ displaySampling(stage + 2, TOTAL_SAMPLES)
            /\ pc' = "stage"
       ELSE /\ stage' = 0
            /\ statusMsg' = statusMsg
            /\ pc' = "average"
  /\ t' = 0
  /\ response' = NoResponse
  /\ UNCHANGED <<session, estimator, sample, count, subject, screen, library>>

\* ---------------------------------------------------------------------------
\* The end of loop(): averages, result, hold
\* ---------------------------------------------------------------------------
\* calculateAverages dividing by the number of stages.
calculateAverages_OverAllStages ==
  /\ avgHR' = IF validHRCount > 0
               THEN Average(hrReadings, TOTAL_SAMPLES) ELSE 0
  /\ avgSpO2' = IF validSpO2Count > 0
                 THEN Average(spo2Readings, TOTAL_SAMPLES) ELSE 0

\* calculateAverages(); running = false; displayResults();
calculateAverages ==
  /\ avgHR' = Average(hrReadings, validHRCount)
  /\ avgSpO2' = Average(spo2Readings, validSpO2Count)

Averaging ==
  /\ pc = "average"
  /\ calculateAverages
  /\ running' = FALSE
  /\ statusMsg' = <<Classify(avgHR', avgSpO2')>>
  /\ t' = 0
  /\ pc' = "hold"
  /\ response' = NoResponse
  /\ UNCHANGED <<hadFinger, cancelRequested, validHRCount, validSpO2Count,
                 hrReadings, spo2Readings, patientName, estimator, stage,
                 sample, count, subject, screen, library>>

\* while (millis() < showUntil) goes round again.
HoldWait ==
  /\ pc = "hold_ret"
  /\ WaitMore("hold")
  /\ UNCHANGED <<session, statusMsg, estimator, stage, sample, count,
                 subject, screen, library>>

\* The hold is over: patientName[0] = '\0'; displayIdle(); loop() returns.
HoldDone ==
  /\ pc = "hold_ret"
  /\ patientName' = EmptyName
  /\ statusMsg' = <<"Idle">>
  /\ t' = 0
  /\ pc' = "loop"
  /\ response' = NoResponse
  /\ UNCHANGED <<running, hadFinger, cancelRequested, validHRCount,
                 validSpO2Count, hrReadings, spo2Readings, avgHR, avgSpO2,
                 estimator, stage, sample, count, subject, screen, library>>

\* ---------------------------------------------------------------------------
\* Specification
\* ---------------------------------------------------------------------------
Next ==
  \/ \E body \in Bodies : handleStart(body)
  \/ handleCancel
  \/ handleJSON
  \/ NoRequest
  \/ SensorErrorLoop
  \/ LoopIdle
  \/ LoopCancel
  \/ LoopNoFinger
  \/ NoFingerReturn
  \/ LoopFinger
  \/ GreetingWait
  \/ GreetingDone
  \/ CountdownCancel
  \/ CountdownWait
  \/ CountdownTick
  \/ StageBegin
  \/ SampleAbort
  \/ SampleReady
  \/ SampleNotReady
  \/ AvailCancel
  \/ AvailWait
  \/ AvailReady
  \/ Estimate
  \/ StagePause
  \/ PauseWait
  \/ PauseDone
  \/ Averaging
  \/ HoldWait
  \/ HoldDone

Spec == Init /\ [][Next]_vars

TypeOK ==
  /\ pc \in CallSites \cup {RetOf[p] : p \in CallSites} \cup {"estimate", "average"}
  /\ stage \in Stages
  /\ sample \in 0..MAX_BUFFER
  /\ t \in 0..MaxTicks

\* ---------------------------------------------------------------------------
\* The sensor-error loop of setup() on its own, with its scheduling: the
\* loop never stops going round (nothing in it blocks) and every call of
\* server.handleClient() returns.
\* ---------------------------------------------------------------------------
ErrInit == Init /\ pc = "err"

\* One call of server.handleClient().
handleClient ==
  \/ \E body \in Bodies : handleStart(body)
  \/ handleCancel
  \/ handleJSON
  \/ NoRequest

ErrNext ==
  \/ \E body \in Bodies : handleStart(body)
  \/ handleCancel
  \/ handleJSON
  \/ NoRequest
  \/ SensorErrorLoop

ErrSpec ==
  /\ ErrInit
  /\ [][ErrNext]_vars
  /\ WF_vars(handleClient)
  /\ WF_vars(SensorErrorLoop)

\* ---------------------------------------------------------------------------
\* Mobile client: SensorScreen (app/sensor.tsx)
\*
\* The screen is event driven: a button press, a timer tick and the outcome
\* of an awaited request each run to their next await without interleaving.
\* The device is represented by the snapshots its handleJSON can send; the
\* firmware's own variables stay as they are in this specification.
\* ---------------------------------------------------------------------------
\* States of the firmware's session a GET /data can be served in: running,
\* completed with both / one / no average, idle.
DeviceStates ==
  { [running |-> TRUE,  avgHR |-> 0,          avgSpO2 |-> 0,
     validHRCount |-> 2, validSpO2Count |-> 2],
    [running |-> FALSE, avgHR |-> 72 * Scale, avgSpO2 |-> 98 * Scale,
     validHRCount |-> TOTAL_SAMPLES, validSpO2Count |-> TOTAL_SAMPLES],
    [running |-> FALSE, avgHR |-> 72 * Scale, avgSpO2 |-> 0,
     validHRCount |-> TOTAL_SAMPLES, validSpO2Count |-> 0],
    [running |-> FALSE, avgHR |-> 0,          avgSpO2 |-> 0,
     validHRCount |-> 0, validSpO2Count |-> 0] }

\* The JSON document handleJSON builds in such a state (ESPData).
SnapshotOf(d) ==
  [heartRate    |-> ToInt(d.avgHR),
   spo2         |-> ToInt(d.avgSpO2),
   hrValid      |-> d.validHRCount,
   spo2Valid    |-> d.validSpO2Count,
   totalSamples |-> TOTAL_SAMPLES,
   running      |-> d.running,
   status       |-> StatusOf(d.running, d.avgHR, d.avgSpO2)]

ESPData == {SnapshotOf(d) : d \in DeviceStates}

\* isReadingValid that looks at the heart rate only.
isReadingValid_HeartOnly(d) == d.heartRate > 0 /\ d.hrValid > 0

isReadingValid(d) ==
  d.heartRate > 0 /\ d.spo2 > 0 /\ d.hrValid > 0 /\ d.spo2Valid > 0

\* The document autoSave hands to addDoc (createdAt left out).
RecordOf(d) ==
  [heartRate |-> d.heartRate, spo2 |-> d.spo2, status |-> d.status,
   totalSamples |-> d.totalSamples, hrValid |-> d.hrValid,
   spo2Valid |-> d.spo2Valid]

\* autoSave up to its await of addDoc.
autoSave(finalData) ==
  IF ~currentUser \/ ~patientId
    THEN UNCHANGED <<saveState, saves>>
    ELSE IF ~isReadingValid(finalData)
      THEN saveState' = "skipped" /\ UNCHANGED saves
      ELSE /\ Len(saves) < MaxInFlight
           /\ saveState' = "saving"
           /\ saves' = Append(saves, RecordOf(finalData))

\* addDoc resolved: the document is in the collection.
SaveResolved ==
  /\ \E i \in DOMAIN saves :
       /\ Len(records) < MaxInFlight
       /\ records' = Append(records, saves[i])
       /\ saves' = [j \in 1..(Len(saves) - 1) |->
                      IF j < i THEN saves[j] ELSE saves[j + 1]]
  /\ saveState' = "saved"
  /\ UNCHANGED <<firmware, library, measuring, data, error, intervalRef, timers,
                 starts, polls, cancels, currentUser, patientId,
                 presses, cancelled>>

\* addDoc rejected: nothing was written.
SaveRejected ==
  /\ \E i \in DOMAIN saves :
       saves' = [j \in 1..(Len(saves) - 1) |->
                   IF j < i THEN saves[j] ELSE saves[j + 1]]
  /\ saveState' = "error"
  /\ UNCHANGED <<firmware, library, measuring, data, error, intervalRef, timers,
                 starts, polls, cancels, records, currentUser, patientId,
                 presses, cancelled>>

\* The save-status row is tapped while it shows the error: save again.
PressRetry ==
  /\ saveState = "error"
  /\ data # <<>>
  /\ autoSave(data[1])
  /\ UNCHANGED <<firmware, library, measuring, data, error, intervalRef, timers,
                 starts, polls, cancels, records, currentUser, patientId,
                 presses, cancelled>>

\* The first statement of stopMeasure.
clearInterval ==
  IF intervalRef
    THEN timers' = timers - 1 /\ intervalRef' = FALSE
    ELSE UNCHANGED <<timers, intervalRef>>

\* handleStart of the screen up to its await of startMeasurement.  The
\* Start button is rendered only while measuring is false.
PressStart ==
  /\ ~measuring
  /\ starts < MaxInFlight
  /\ presses < MaxPresses
  /\ presses' = presses + 1
  /\ cancelled' = FALSE
  /\ error' = "" /\ saveState' = "idle" /\ data' = <<>>
  /\ measuring' = TRUE
  /\ starts' = starts + 1
  /\ UNCHANGED <<firmware, library, intervalRef, timers, polls, cancels, saves,
                 records, currentUser, patientId>>

\* startMeasurement resolved: polling starts.  A timer intervalRef already
\* held is not cleared.
StartResolved ==
  /\ starts > 0
  /\ timers < MaxInFlight
  /\ starts' = starts - 1
  /\ intervalRef' = TRUE
  /\ timers' = timers + 1
  /\ UNCHANGED <<firmware, library, measuring, data, saveState, error, polls, cancels,
                 saves, records, currentUser, patientId,
                 presses, cancelled>>

\* startMeasurement rejected (all attempts failed).
StartRejected ==
  /\ starts > 0
  /\ starts' = starts - 1
  /\ error' = "Failed to start device. Check IP address."
  /\ measuring' = FALSE
  /\ UNCHANGED <<firmware, library, data, saveState, intervalRef, timers, polls,
                 cancels, saves, records, currentUser, patientId,
                 presses, cancelled>>

\* A timer fires: pollData up to its await of fetchESPData.
pollData ==
  /\ timers > 0
  /\ polls < MaxInFlight
  /\ polls' = polls + 1
  /\ UNCHANGED <<firmware, library, measuring, data, saveState, error, intervalRef,
                 timers, starts, cancels, saves, records, currentUser,
                 patientId, presses, cancelled>>

\* fetchESPData resolved with res; stopMeasure(res) for a final snapshot.
PollResolved(res) ==
  /\ polls > 0
  /\ polls' = polls - 1
  /\ data' = <<res>>
  /\ error' = ""
  /\ IF ~res.running /\ res.totalSamples > 0
       THEN /\ clearInterval
            /\ measuring' = FALSE
            /\ autoSave(res)
       ELSE UNCHANGED <<intervalRef, timers, measuring, saveState, saves>>
  /\ UNCHANGED <<firmware, library, starts, cancels, records, currentUser, patientId,
                 presses, cancelled>>

\* fetchESPData rejected.
PollRejected ==
  /\ polls > 0
  /\ polls' = polls - 1
  /\ error' = "Cannot reach device. Check the IP address."
  /\ UNCHANGED <<firmware, library, measuring, data, saveState, intervalRef, timers,
                 starts, cancels, saves, records, currentUser, patientId,
                 presses, cancelled>>

\* handleCancel of the screen up to its await of cancelMeasurement.  The
\* Cancel button is rendered only while measuring is true.
PressCancel ==
  /\ measuring
  /\ cancels < MaxInFlight
  /\ clearInterval
  /\ measuring' = FALSE
  /\ cancels' = cancels + 1
  /\ cancelled' = TRUE
  /\ UNCHANGED <<firmware, library, data, saveState, error, starts, polls, saves,
                 records, currentUser, patientId, presses>>

\* cancelMeasurement resolved or rejected: the rest of handleCancel.
CancelSettled ==
  /\ cancels > 0
  /\ cancels' = cancels - 1
  /\ data' = <<>>
  /\ saveState' = "idle"
  /\ UNCHANGED <<firmware, library, measuring, error, intervalRef, timers, starts,
                 polls, saves, records, currentUser, patientId,
                 presses, cancelled>>

\* The screen is opened next to an idle device, with or without a signed-in
\* user and a patientId.
ClientInit ==
  /\ Boot /\ pc = "loop" /\ subject.hr = {Est(110, 1)}
  /\ \E user \in BOOLEAN, patient \in BOOLEAN : Mounted(user, patient)
  /\ RetryIdle /\ AssessIdle

ClientNext ==
  \/ PressStart
  \/ StartResolved
  \/ StartRejected
  \/ pollData
  \/ \E res \in ESPData : PollResolved(res)
  \/ PollRejected
  \/ SaveResolved
  \/ SaveRejected
  \/ PressRetry
  \/ PressCancel
  \/ CancelSettled

ClientSpec == ClientInit /\ [][ClientNext]_vars

SaveStates == {"idle", "saving", "saved", "skipped", "error"}
ClientTypeOK ==
  /\ measuring \in BOOLEAN /\ intervalRef \in BOOLEAN
  /\ saveState \in SaveStates
  /\ data = <<>> \/ (Len(data) = 1 /\ data[1] \in ESPData)
  /\ timers \in 0..MaxInFlight /\ polls \in 0..MaxInFlight
  /\ starts \in 0..MaxInFlight /\ cancels \in 0..MaxInFlight
  /\ Len(saves) <= MaxInFlight /\ Len(records) <= MaxInFlight
  /\ intervalRef => timers > 0
  /\ presses \in 0..MaxPresses /\ cancelled \in BOOLEAN

\* ---------------------------------------------------------------------------
\* Client library: withRetry (esp.ts)
\*
\*   for (let i = 0; i < retries; i++) {
\*     try { return await fn(); }
\*     catch (err) { if (i === retries - 1) throw err; ...; await delay; }
\*   }
\*   throw new Error('Unreachable');
\* ---------------------------------------------------------------------------
\* What a call of fn can settle to.
Values == {"v1", "v2"}
Errors == {"e1", "e2"}
Ok(v) == [ok |-> TRUE, value |-> v]
Err(e) == [ok |-> FALSE, error |-> e]

\* The loop test succeeds and fn is called.
RetryCall ==
  /\ retryPc = "test"
  /\ attempt < retries
  /\ retryPc' = "await"
  /\ UNCHANGED <<firmware, screen, retries, delayMs, attempt, attempts,
                 waited, outcome, reading, assessment>>

\* fn resolved: return its value.
RetryResolved(v) ==
  /\ retryPc = "await"
  /\ attempts' = Append(attempts, Ok(v))
  /\ outcome' = <<Ok(v)>>
  /\ retryPc' = "done"
  /\ UNCHANGED <<firmware, screen, retries, delayMs, attempt, waited,
                 reading, assessment>>

\* The catch block waiting before every further turn of the loop, the last
\* attempt included.
RetryRejected_AlwaysWaits(e) ==
  /\ retryPc = "await"
  /\ attempts' = Append(attempts, Err(e))
  /\ retryPc' = "delay" /\ outcome' = outcome
  /\ UNCHANGED <<firmware, screen, retries, delayMs, attempt, waited,
                 reading, assessment>>

\* fn rejected: rethrow on the last attempt, else wait delayMs.
RetryRejected(e) ==
  /\ retryPc = "await"
  /\ attempts' = Append(attempts, Err(e))
  /\ IF attempt = retries - 1
       THEN retryPc' = "done" /\ outcome' = <<Err(e)>>
       ELSE retryPc' = "delay" /\ outcome' = outcome
  /\ UNCHANGED <<firmware, screen, retries, delayMs, attempt, waited,
                 reading, assessment>>

\* The setTimeout of the catch block elapsed; i++.
RetryDelayed ==
  /\ retryPc = "delay"
  /\ waited' = waited + delayMs
  /\ attempt' = attempt + 1
  /\ retryPc' = "test"
  /\ UNCHANGED <<firmware, screen, retries, delayMs, attempts, outcome,
                 reading, assessment>>

\* The loop test fails: throw new Error('Unreachable').
RetryUnreachable ==
  /\ retryPc = "test"
  /\ ~(attempt < retries)
  /\ outcome' = <<Err("Unreachable")>>
  /\ retryPc' = "done"
  /\ UNCHANGED <<firmware, screen, retries, delayMs, attempt, attempts,
                 waited, reading, assessment>>

\* withRetry is called with some number of retries and some delay.
RetryInit ==
  /\ Boot /\ pc = "loop" /\ subject.hr = {Est(110, 1)}
  /\ Mounted(TRUE, TRUE)
  /\ AssessIdle
  /\ retries \in 0..MaxRetries /\ delayMs \in {0, 500}
  /\ attempt = 0 /\ retryPc = "test"
  /\ attempts = <<>> /\ waited = 0 /\ outcome = <<>>

RetryNext ==
  \/ RetryCall
  \/ \E v \in Values : RetryResolved(v)
  \/ \E e \in Errors : RetryRejected(e)
  \/ RetryDelayed
  \/ RetryUnreachable

RetrySpec == RetryInit /\ [][RetryNext]_vars

\* ---------------------------------------------------------------------------
\* Client library: assess (app/assessment.ts)
\* ---------------------------------------------------------------------------
\* Heart rates and saturations around every threshold of assess and of the
\* firmware's rule.
Readings ==
  [heartRate : {0, 1, 39, 40, 59, 60, 72, 100, 101, 150, 151, 220},
   spo2      : {0, 1, 89, 90, 93, 94, 95, 96, 100}]

\* The label (without its leading pictograph) and the urgent flag of the
\* Assessment that assess returns.
assess(hr, sp) ==
  IF sp < 90 THEN [label |-> "Critical - Emergency", urgent |-> TRUE]
  ELSE IF sp < 94 THEN [label |-> "High Alert", urgent |-> TRUE]
  ELSE IF hr > 150 THEN [label |-> "Critical - Emergency", urgent |-> TRUE]
  ELSE IF hr < 40 THEN [label |-> "Critical - Emergency", urgent |-> TRUE]
  ELSE IF hr > 100 THEN [label |-> "Elevated Heart Rate", urgent |-> FALSE]
  ELSE IF hr < 60 THEN [label |-> "Low Heart Rate", urgent |-> FALSE]
  ELSE IF sp < 96 THEN [label |-> "Monitor Closely", urgent |-> FALSE]
  ELSE [label |-> "Normal", urgent |-> FALSE]

\* assess is called on the reading.
Assess ==
  /\ assessment = <<>>
  /\ assessment' = <<assess(reading.heartRate, reading.spo2)>>
  /\ UNCHANGED <<firmware, screen, retries, delayMs, attempt, retryPc,
                 attempts, waited, outcome, reading>>

AssessInit ==
  /\ Boot /\ pc = "loop" /\ subject.hr = {Est(110, 1)}
  /\ Mounted(TRUE, TRUE)
  /\ RetryIdle
  /\ reading \in Readings
  /\ assessment = <<>>

AssessNext == Assess

AssessSpec == AssessInit /\ [][AssessNext]_vars

\* ---------------------------------------------------------------------------
\* Properties
\* ---------------------------------------------------------------------------
HoldPcs == {"hold", "hold_ret"}

\* C1: a session on which a cancel request is pending never has its
\* averages computed (it goes to Idle instead of producing a result).
C1_CancelledNeverAveraged ==
  (running /\ cancelRequested) => pc # "average"

\* C2: a Begin served while a session is running is acknowledged with
\* success and leaves every field of the session as it was.
C2_BeginWhileRunningIsNoOp ==
  [][(pc \in CallSites /\ running /\ response'.op = "start")
       => (response' = Ack("start") /\ UNCHANGED session)]_vars

\* A Begin was served in the middle of a window of a session that already
\* has an accepted reading and a label.
C2_Witness ==
  /\ pc = "avail_ret"
  /\ response.op = "start"
  /\ running
  /\ validHRCount > 0
  /\ patientName # EmptyName

\* C3: the label stored by an accepted Begin is kept while that session is
\* running and through its own result hold.
C3_LabelStable ==
  [][(\/ running /\ (running' \/ pc' = "hold")
      \/ ~running /\ ~running' /\ pc \in HoldPcs /\ pc' \in HoldPcs)
       => patientName' = patientName]_vars

\* C4: the snapshot of a completed session that is not running carries the
\* three-way classification of its averages.
C4_Rule(hr, sp) ==
  IF sp >= 95 * Scale /\ 60 * Scale <= hr /\ hr <= 100 * Scale THEN "Normal"
  ELSE IF sp >= 90 * Scale THEN "Warning"
  ELSE "Critical"

C4_CompletedIsClassified ==
  (pc \in HoldPcs /\ ~running) => Snapshot.status = C4_Rule(avgHR, avgSpO2)

\* C5: once a session has run to completion, a snapshot taken while not
\* running never reports "idle".
C5_CompletedNeverIdle ==
  (pc \in HoldPcs /\ ~running) => Snapshot.status # "idle"

\* C6: the snapshot reports "measuring" exactly when running is true, in
\* every state and in every snapshot actually sent.
C6_MeasuringIffRunning ==
  /\ (Snapshot.status = "measuring") <=> running
  /\ response.op = "data" =>
       ((response.json.status = "measuring") <=> running)

\* A snapshot was sent during a session that has accepted readings.
C6_Witness ==
  /\ response.op = "data"
  /\ response.json.status = "measuring"
  /\ validHRCount > 0
  /\ validSpO2Count > 0

\* C7: serving Status changes no field of the session.
C7_StatusMutatesNothing ==
  [][response'.op = "data" => UNCHANGED session]_vars

\* Status was served inside the wait for a sample, in a session with a
\* label and accepted readings.
C7_Witness ==
  /\ pc = "avail_ret"
  /\ response.op = "data"
  /\ validHRCount > 0
  /\ patientName # EmptyName

\* C8: an accepted Begin leaves no cancel request pending, so a Cancel
\* served while no session was running does not reach the new session.
C8_BeginDropsStaleCancel ==
  [][(~running /\ running') => ~cancelRequested']_vars

\* A Cancel was served while no session is running and a Begin can be
\* served next.
C8_Witness ==
  /\ pc = "loop"
  /\ ~running
  /\ cancelRequested

\* C9: every stored heart-rate entry is 0 or within 40..220, every stored
\* saturation entry is 0 or within 80..100, and a non-zero entry is written
\* only as the value the estimator just returned with its flag set.
C9_StoredReadingsFiltered ==
  /\ [](\A i \in Stages :
          /\ hrReadings[i] = 0 \/ (40 <= hrReadings[i] /\ hrReadings[i] <= 220)
          /\ spo2Readings[i] = 0 \/ (80 <= spo2Readings[i] /\ spo2Readings[i] <= 100))
  /\ [][\A i \in Stages :
          /\ (hrReadings'[i] # hrReadings[i] /\ hrReadings'[i] # 0)
               => (hrValid' # 0 /\ heartRate' = hrReadings'[i])
          /\ (spo2Readings'[i] # spo2Readings[i] /\ spo2Readings'[i] # 0)
               => (spo2Valid' # 0 /\ spo2' = spo2Readings'[i])]_vars

\* A stage has just rejected a heart rate the estimator flagged valid but
\* that is out of range, after another stage stored a boundary value.
C9_Witness ==
  /\ pc = "post"
  /\ hrValid = 1
  /\ heartRate = 221
  /\ hrReadings[stage] = 0
  /\ \E i \in Stages : hrReadings[i] = 220

\* C10 as stated: in every state an average is 0 exactly when its counter
\* is 0.
C10_AverageZeroIffNoValid ==
  /\ (avgHR = 0) <=> (validHRCount = 0)
  /\ (avgSpO2 = 0) <=> (validSpO2Count = 0)

\* C10 amended: whenever no session is running, an average is 0 exactly
\* when its counter is 0.
C10_AverageZeroIffNoValidWhenNotRunning ==
  ~running => C10_AverageZeroIffNoValid

\* A completed session with accepted heart rates and no accepted saturation.
C10_Witness ==
  /\ pc \in HoldPcs
  /\ ~running
  /\ avgHR # 0
  /\ validSpO2Count = 0
  /\ avgSpO2 = 0

\* C11: while running is true both averages are 0 (so no snapshot shows
\* running together with a non-zero heartRate or spo2), and the averages
\* are assigned only by the averaging step after the last stage or zeroed by
\* an accepted Begin.
C11_NoAveragesWhileRunning ==
  /\ [](running => (avgHR = 0 /\ avgSpO2 = 0))
  /\ []((response.op = "data" /\ response.json.running)
          => (response.json.heartRate = 0 /\ response.json.spo2 = 0))
  /\ [][(avgHR' # avgHR \/ avgSpO2' # avgSpO2)
          => (\/ pc = "average" /\ running /\ ~running'
              \/ ~running /\ running' /\ avgHR' = 0 /\ avgSpO2' = 0)]_vars

\* A snapshot sent in the pause after the last stage of a session in which
\* every stage was accepted: running, and both averages still 0.
C11_Witness ==
  /\ pc = "pause_ret"
  /\ stage = TOTAL_SAMPLES - 1
  /\ response.op = "data"
  /\ response.json.running
  /\ response.json.heartRate = 0
  /\ validHRCount = TOTAL_SAMPLES
  /\ validSpO2Count = TOTAL_SAMPLES

\* C12: the three-way rule applied to the integer heartRate and spo2 of the
\* snapshot of a completed, non-running session gives the snapshot's status.
C12_ClientRule(hr, sp) ==
  IF sp >= 95 /\ 60 <= hr /\ hr <= 100 THEN "Normal"
  ELSE IF sp >= 90 THEN "Warning"
  ELSE "Critical"

\* (Stated for sessions with accepted readings in both categories.)
C12_SnapshotReproducible ==
  (pc \in HoldPcs /\ ~running /\ validHRCount > 0 /\ validSpO2Count > 0)
    => C12_ClientRule(Snapshot.heartRate, Snapshot.spo2) = Snapshot.status

\* C13: at the top of loop() with no session running (Idle) both counters
\* are 0 and the label is empty.
C13_IdleIsCleared ==
  (pc = "loop" /\ ~running)
    => (validHRCount = 0 /\ validSpO2Count = 0 /\ patientName = EmptyName)

\* C14: once in the sensor-error loop the firmware stays in it, whatever
\* requests it serves, and no measurement step runs: finger flag, counters,
\* stage readings, averages, estimator outputs and loop counters never change.
ErrPcs == {"err", "err_ret"}

C14_ErrorLoopIsPermanent ==
  [][(pc \in ErrPcs)
       => (/\ pc' \in ErrPcs
           /\ (pc = "err") => (pc' = "err_ret")
           /\ UNCHANGED <<hadFinger, validHRCount, validSpO2Count, hrReadings,
                          spo2Readings, avgHR, avgSpO2, estimator, locals>>)]_vars

\* In the error loop a Begin and then a Cancel have been served.
C14_Witness ==
  /\ pc = "err_ret"
  /\ running
  /\ cancelRequested
  /\ response.op = "cancel"

\* C15: a Begin served while not running is acknowledged with success and
\* starts a session with counters, averages and stage readings reset; with
\* no body, an invalid body or a body without a name the label is empty.
C15_BeginAlwaysStarts ==
  [][(/\ (pc \in CallSites /\ ~running /\ response'.op = "start")
           => (/\ response' = Ack("start")
               /\ running'
               /\ ~hadFinger' /\ ~cancelRequested'
               /\ validHRCount' = 0 /\ validSpO2Count' = 0
               /\ avgHR' = 0 /\ avgSpO2' = 0
               /\ hrReadings' = Zeros /\ spo2Readings' = Zeros)
      /\ \A b \in {NoBody, BadJson, NoName} :
           (~running /\ handleStart(b))
             => (running' /\ patientName' = EmptyName))]_vars

\* During the result hold of a session that had readings, a Begin without a
\* usable name was served: new session, empty label, readings zeroed.
C15_Witness ==
  /\ pc = "hold_ret"
  /\ response.op = "start"
  /\ running
  /\ patientName = EmptyName
  /\ heartRate > 0
  /\ hrReadings = Zeros
  /\ validHRCount = 0

\* C16: the integers of the snapshot are the averages rounded to the
\* nearest integer.
C16_Round(x) == (2 * x + Scale) \div (2 * Scale)

C16_SnapshotRounded ==
  /\ Snapshot.heartRate = C16_Round(avgHR)
  /\ Snapshot.spo2 = C16_Round(avgSpO2)

\* C17: the reading arrays have exactly TOTAL_SAMPLES entries, the window
\* sizes are non-decreasing and at most MAX_BUFFER, and every index at which
\* a sample is about to be stored lies inside the buffers.
SamplePcs == {"sample", "sample_ret", "avail", "avail_ret"}

C17_ScheduleFitsBuffers ==
  /\ DOMAIN hrReadings = Stages /\ DOMAIN spo2Readings = Stages
  /\ Cardinality(DOMAIN hrReadings) = TOTAL_SAMPLES
  /\ Len(sampleCounts) = TOTAL_SAMPLES
  /\ \A i \in 2..TOTAL_SAMPLES : sampleCounts[i - 1] <= sampleCounts[i]
  /\ \A i \in 1..TOTAL_SAMPLES : sampleCounts[i] <= MAX_BUFFER
  /\ (pc \in SamplePcs) => (0 <= sample /\ sample < MAX_BUFFER)
  /\ (pc \in SamplePcs \cup {"stage", "stage_ret", "estimate"})
       => (stage \in Stages)

\* The last sample of the largest window is about to be stored.
C17_Witness ==
  /\ pc = "sample_ret"
  /\ stage = TOTAL_SAMPLES - 1
  /\ sample = MAX_BUFFER - 1

\* The four fields of a snapshot or of a record are all positive.
C18_Valid(d) ==
  d.heartRate > 0 /\ d.spo2 > 0 /\ d.hrValid > 0 /\ d.spo2Valid > 0

\* A poll has just resolved with a final snapshot (not running) that is not
\* a valid reading; it is kept in data.
C18_InvalidFinal ==
  /\ polls' = polls - 1 /\ error' = ""
  /\ data' # <<>>
  /\ ~data'[1].running /\ data'[1].totalSamples > 0
  /\ ~C18_Valid(data'[1])

\* C18: every document the client hands to the backend, and every record
\* written, is a valid reading (heartRate, spo2, hrValid and spo2Valid all
\* > 0); and when a poll delivers a final snapshot that is not a valid
\* reading the client hands nothing to the backend and the save state
\* becomes "skipped".
C18_OnlyValidSavedElseSkipped ==
  /\ [](/\ \A i \in DOMAIN saves : C18_Valid(saves[i])
        /\ \A i \in DOMAIN records : C18_Valid(records[i]))
  /\ [][C18_InvalidFinal
          => (saveState' = "skipped" /\ UNCHANGED <<saves, records>>)]_vars

\* C18 (amended): as above, but the save state becomes "skipped" only when
\* a user is signed in and the screen has a patientId; without either,
\* autoSave returns at once and the save state stays as it was.
C18_OnlyValidSavedElseSkippedWhenSignedIn ==
  /\ [](/\ \A i \in DOMAIN saves : C18_Valid(saves[i])
        /\ \A i \in DOMAIN records : C18_Valid(records[i]))
  /\ [][C18_InvalidFinal
          => (/\ UNCHANGED <<saves, records>>
              /\ saveState' = IF currentUser /\ patientId
                                THEN "skipped" ELSE saveState)]_vars

\* A first measurement was saved; a second one ended with a heart rate but
\* no SpO2 and was skipped, the collection still holding the one record.
C18_Witness ==
  /\ saveState = "skipped"
  /\ Len(records) = 1 /\ saves = <<>>
  /\ data # <<>>
  /\ ~data[1].running /\ data[1].heartRate > 0 /\ data[1].spo2 = 0

\* C19: the firmware never takes two steps in a row without a
\* handleClient() call in between, except for the estimator and averaging
\* steps, which lead straight to a call; and at every call each of Begin,
\* Cancel and Status can be served.
C19_EveryWaitServes ==
  /\ [][((pc \notin CallSites)
            => (pc' \in CallSites \cup {"estimate", "average"}))
         /\ ((pc \in {"estimate", "average"}) => (pc' \in CallSites))]_vars
  /\ []((pc \in CallSites)
          => (/\ ENABLED handleCancel
              /\ ENABLED handleJSON
              /\ \A b \in Bodies : ENABLED handleStart(b)))

\* Status was served in the second iteration of the second countdown second.
C19_Witness ==
  /\ pc = "count_ret"
  /\ count = COUNTDOWN_SECONDS - 1
  /\ t = 1
  /\ response.op = "data"

\* C20: with a cancel request pending in the greeting dwell, the session
\* does not enter the countdown.
C20_CancelInterruptsGreeting ==
  [][(pc \in {"greet", "greet_ret"} /\ cancelRequested)
       => (pc' # "count" /\ statusMsg'[1] # "Starting in %ds")]_vars

\* C21: a Begin served during the result hold of a completed session leaves
\* the session's averages, counters and stage readings as they are and does
\* not set running.
C21_NoBeginDuringResultHold ==
  [][(pc = "hold" /\ ~running /\ response'.op = "start")
       => (/\ ~running'
           /\ UNCHANGED <<avgHR, avgSpO2, validHRCount, validSpO2Count,
                          hrReadings, spo2Readings>>)]_vars

\* A step of the firmware that ends the session in progress.
C22_Aborts == Next /\ running /\ ~running' /\ pc' = "loop"

\* C22: at every iteration of takeSingleReading's waits (the test at the
\* top of the sample loop and the test inside while (!sensor.available()))
\* a pending cancel ends the session at once, and the iteration can end the
\* session for a finger that is no longer on the sensor.
C22_SampleWaitEscapable ==
  /\ [][(pc \in {"sample_ret", "avail_ret"} /\ cancelRequested)
          => (pc' = "loop" /\ ~running')]_vars
  /\ []((pc \in {"sample_ret", "avail_ret"}) => ENABLED C22_Aborts)

\* Positions of the firmware inside the stage loop of loop().
StagePcs == {"stage", "stage_ret"} \cup SamplePcs
              \cup {"estimate", "post", "post_ret", "pause", "pause_ret"}

\* C23: stage 0 starts only at the end of the countdown, stage i+1 only at
\* the end of the pause that follows the estimator's result for stage i, and
\* Averaging only at the end of the pause after the last stage; the stage
\* index never changes inside a stage, and a stage that is interrupted ends
\* the session (running false, back at the top of loop()) with the averages
\* still 0.
C23_StagesInOrder ==
  [][/\ (pc' = "stage" /\ pc # "stage_ret" /\ pc # "stage")
          => \/ (pc = "count_ret" /\ count = 1 /\ stage' = 0)
             \/ (pc = "pause_ret" /\ stage' = stage + 1
                   /\ stage' < TOTAL_SAMPLES)
     /\ (pc' = "post") => (pc = "estimate" /\ stage' = stage)
     /\ (pc' = "pause" /\ pc # "pause_ret") => (pc = "post_ret")
     /\ (pc' = "average")
          => (pc = "pause_ret" /\ stage = TOTAL_SAMPLES - 1)
     /\ (pc \in StagePcs /\ pc' \in StagePcs /\ pc # "pause_ret")
          => (stage' = stage)
     /\ (pc \in StagePcs /\ pc' \notin StagePcs \cup {"average"})
          => (/\ pc \in {"sample_ret", "avail_ret"}
              /\ pc' = "loop" /\ ~running'
              /\ avgHR' = 0 /\ avgSpO2' = 0)]_vars

\* The last stage has started, every earlier stage having stored a reading.
C23_Witness ==
  /\ pc = "sample"
  /\ stage = TOTAL_SAMPLES - 1
  /\ validHRCount = TOTAL_SAMPLES - 1
  /\ \A i \in 0..(TOTAL_SAMPLES - 2) : hrReadings[i] > 0

\* C24: the estimator runs only with the window of the stage full, once per
\* stage (its outputs change in no other step); a stage that is interrupted
\* while its window is filling leaves the estimator's outputs and the stage
\* readings as they are and adds nothing to either valid counter.
C24_EstimatorOncePerFullWindow ==
  /\ []((pc = "estimate") => (sample = sampleCounts[stage + 1]))
  /\ [][/\ (estimator' # estimator) => (pc = "estimate" /\ pc' = "post")
        /\ (pc = "estimate") => (pc' = "post")
        /\ (pc' = "estimate")
             => (pc \in {"sample_ret", "avail_ret"} /\ stage' = stage)
        /\ (pc \in SamplePcs)
             => (/\ UNCHANGED <<estimator, hrReadings, spo2Readings>>
                 /\ validHRCount' \in {validHRCount, 0}
                 /\ validSpO2Count' \in {validSpO2Count, 0})]_vars

\* Stage 1 was interrupted after stage 0 had stored its readings: the
\* entries of stage 0 are kept, those of stage 1 were never written.
C24_Witness ==
  /\ pc = "loop"
  /\ ~running
  /\ heartRate > 0
  /\ hrReadings[0] > 0 /\ spo2Readings[0] > 0
  /\ hrReadings[1] = 0 /\ spo2Readings[1] = 0
  /\ validHRCount = 0 /\ validSpO2Count = 0

\* C25: the step that runs the estimator on a full window always ends the
\* stage with success; validHRCount grows by 1 exactly when the heart rate
\* has its flag set and lies in 40..220, validSpO2Count grows by 1 exactly
\* when the saturation has its flag set and lies in 80..100, each entry of
\* the stage being the accepted value or 0, whatever the other metric is.
C25_MetricsFilteredIndependently ==
  [][(pc = "estimate")
       => (/\ pc' = "post" /\ running'
           /\ validHRCount' = validHRCount +
                (IF hrValid' # 0 /\ heartRate' >= 40 /\ heartRate' <= 220
                   THEN 1 ELSE 0)
           /\ validSpO2Count' = validSpO2Count +
                (IF spo2Valid' # 0 /\ spo2' >= 80 /\ spo2' <= 100
                   THEN 1 ELSE 0)
           /\ hrReadings'[stage] =
                (IF hrValid' # 0 /\ heartRate' >= 40 /\ heartRate' <= 220
                   THEN heartRate' ELSE 0)
           /\ spo2Readings'[stage] =
                (IF spo2Valid' # 0 /\ spo2' >= 80 /\ spo2' <= 100
                   THEN spo2' ELSE 0))]_vars

\* A stage has just stored a saturation and rejected the heart rate, after
\* a stage that stored both.
C25_Witness ==
  /\ pc = "post"
  /\ stage = 1
  /\ hrValid = 0 /\ hrReadings[1] = 0
  /\ spo2Readings[1] > 0
  /\ validHRCount = 1 /\ validSpO2Count = 2

CountPcs == {"count", "count_ret"}

\* C26: the countdown starts at 3 and shows each second in turn, the status
\* naming the second shown; each second is a wait that serves the control
\* surface, ended at once by a pending cancel (session over, no stage
\* reading written) and by nothing else: after second 1 stage 0 starts, and
\* no step of the countdown depends on the finger.
C26_CountdownThreeTwoOne ==
  /\ []((pc \in CountPcs)
          => (/\ count \in 1..COUNTDOWN_SECONDS
              /\ statusMsg = <<"Starting in %ds", count>>
              /\ hrReadings = Zeros /\ spo2Readings = Zeros))
  /\ [][/\ (pc' \in CountPcs /\ pc \notin CountPcs)
             => (pc = "greet_ret" /\ pc' = "count"
                   /\ count' = COUNTDOWN_SECONDS)
        /\ (pc = "count_ret" /\ cancelRequested)
             => (/\ pc' = "loop" /\ ~running'
                 /\ UNCHANGED <<hrReadings, spo2Readings>>)
        /\ (pc = "count_ret" /\ ~cancelRequested)
             => \/ (pc' = "count" /\ count' = count)
                \/ (pc' = "count" /\ count > 1 /\ count' = count - 1)
                \/ (/\ count = 1 /\ pc' = "stage" /\ stage' = 0
                    /\ running' /\ hadFinger')]_vars

\* The last second of the countdown is being waited out, a status request
\* having just been served.
C26_Witness ==
  /\ pc = "count_ret"
  /\ count = 1
  /\ t = MaxTicks - 1
  /\ ~cancelRequested
  /\ response.op = "data"

\* C27: a stage that ends the session, be it for a lost finger (no cancel
\* pending) or for a cancel, leaves the firmware at the top of loop() with
\* running, hadFinger and cancelRequested false, both counters 0, the label
\* empty, the averages 0 and the status "Idle"; and whenever the firmware
\* is there with no session running, a Begin is accepted.
C27_FingerLossResetsToIdle ==
  /\ [][(pc \in SamplePcs /\ pc' \notin SamplePcs \cup {"estimate"})
          => (/\ pc' = "loop"
              /\ ~running' /\ ~hadFinger' /\ ~cancelRequested'
              /\ validHRCount' = 0 /\ validSpO2Count' = 0
              /\ patientName' = EmptyName
              /\ avgHR' = 0 /\ avgSpO2' = 0
              /\ statusMsg' = <<"Idle">>)]_vars
  /\ []((pc = "loop" /\ ~running)
          => ENABLED (handleStart(NoBody) /\ running'))

\* A session lost the finger or was cancelled in its second stage or later
\* and the firmware is back in Idle.
C27_Witness ==
  /\ pc = "loop"
  /\ ~running /\ ~hadFinger /\ ~cancelRequested
  /\ patientName = EmptyName
  /\ statusMsg = <<"Idle">>
  /\ validSpO2Count = 0
  /\ spo2Readings[0] > 0
  /\ avgSpO2 = 0

\* How far along its session the firmware is.
C28_Rank(p, st) ==
  IF p \in {"loop", "loop_ret", "nofinger", "nofinger_ret"} THEN 0
  ELSE IF p \in {"greet", "greet_ret"} THEN 1
  ELSE IF p \in CountPcs THEN 2
  ELSE IF p \in StagePcs THEN 3 + st
  ELSE IF p = "average" THEN 3 + TOTAL_SAMPLES
  ELSE IF p \in HoldPcs THEN 4 + TOTAL_SAMPLES
  ELSE 0 - 1

\* C28: from the greeting to the averaging a session is running with
\* hadFinger set, and every step either keeps or advances its position
\* (greeting, countdown, stage 0, 1, ..., averaging, result hold) or ends the
\* session; the greeting is entered only from the top of loop() by a
\* session that has not yet seen the finger, and a running session that is
\* at the top of loop() or awaiting the finger has not been greeted.
C28_NoBackEdges ==
  /\ []((C28_Rank(pc, stage) \in 1..(3 + TOTAL_SAMPLES))
          => (running /\ hadFinger))
  /\ []((C28_Rank(pc, stage) = 0 /\ running) => ~hadFinger)
  /\ [][/\ (C28_Rank(pc, stage) \in 1..(3 + TOTAL_SAMPLES))
             => \/ C28_Rank(pc', stage') >= C28_Rank(pc, stage)
                \/ (pc' = "loop" /\ ~running')
        /\ (C28_Rank(pc', stage') = 1 /\ C28_Rank(pc, stage) # 1)
             => (pc = "loop_ret" /\ ~hadFinger /\ hadFinger')]_vars

\* A session has gone through every stage and is about to be averaged.
C28_Witness ==
  /\ pc = "average"
  /\ running /\ hadFinger
  /\ validSpO2Count = TOTAL_SAMPLES

\* C29: cancelRequested is cleared only by a step of the state machine (no
\* handler clears it), and the firmware never comes back to the top of
\* loop() from a session or a result hold with the request still pending.
C29_CancelConsumedByStateMachine ==
  [][/\ (cancelRequested /\ ~cancelRequested') => (pc \notin CallSites)
     /\ (pc' = "loop" /\ pc \notin {"loop_ret", "nofinger_ret"})
          => ~cancelRequested']_vars

\* C30: a Cancel request, served at any call site, sets cancelRequested and
\* leaves running, hadFinger, the label, both valid counters, the stage
\* readings and the averages as they were.
C30_CancelWritesOnlyFlag ==
  [][(pc \in CallSites /\ response'.op = "cancel")
       => (/\ cancelRequested'
           /\ response' = Ack("cancel")
           /\ UNCHANGED <<running, hadFinger, patientName, validHRCount,
                          validSpO2Count, hrReadings, spo2Readings, avgHR,
                          avgSpO2>>)]_vars

\* A Cancel was served in the middle of a window of a labelled session that
\* already has accepted readings; nothing but the flag has changed.
C30_Witness ==
  /\ pc = "sample_ret"
  /\ response.op = "cancel"
  /\ running /\ hadFinger /\ cancelRequested
  /\ patientName # EmptyName
  /\ validHRCount = 2 /\ hrReadings[1] > 0
  /\ sample > 0

\* C31: the snapshot of a completed session that has accepted heart-rate
\* readings but no accepted saturation reading (avgSpO2 is 0 for lack of
\* data) does not report "Critical".
C31_MissingSaturationNotCritical ==
  (pc \in HoldPcs /\ ~running /\ validHRCount > 0 /\ validSpO2Count = 0)
    => (Snapshot.status # "Critical")

\* C32: while the result of a completed session is held, the label that
\* displayResults put on the screen and in the status text is the status
\* string a Status request gets.
C32_ScreenAndSnapshotAgree ==
  (pc \in HoldPcs /\ ~running) => (statusMsg = <<Snapshot.status>>)

\* Stages of the running session whose result has been recorded.
C35_StagesDone ==
  IF pc \in {"post", "post_ret", "pause", "pause_ret"} THEN stage + 1
  ELSE IF pc = "average" THEN TOTAL_SAMPLES
  ELSE IF pc \in StagePcs THEN stage
  ELSE 0

\* C35: both valid counters are always within 0..TOTAL_SAMPLES, and while
\* a session is running each is at most the number of stages completed and
\* equals the number of non-zero entries of its reading array.
C35_CountersBounded ==
  /\ validHRCount \in 0..TOTAL_SAMPLES
  /\ validSpO2Count \in 0..TOTAL_SAMPLES
  /\ Snapshot.hrValid <= Snapshot.totalSamples
  /\ Snapshot.spo2Valid <= Snapshot.totalSamples
  /\ running
       => (/\ validHRCount <= C35_StagesDone
           /\ validSpO2Count <= C35_StagesDone
           /\ validHRCount = Cardinality({i \in Stages : hrReadings[i] # 0})
           /\ validSpO2Count =
                Cardinality({i \in Stages : spo2Readings[i] # 0}))

\* The fourth stage has just recorded a saturation but no heart rate, the
\* earlier stages having recorded both.
C35_Witness ==
  /\ pc = "post"
  /\ running
  /\ stage = 3
  /\ validHRCount = 3 /\ validSpO2Count = 4
  /\ hrReadings[3] = 0

\* Sum of the entries of r over the stages in S.
RECURSIVE C36_Sum(_, _)
C36_Sum(r, S) ==
  IF S = {} THEN 0
  ELSE LET i == CHOOSE j \in S : TRUE IN r[i] + C36_Sum(r, S \ {i})

\* avg (in units of 1/Scale) is the mean of the non-zero entries of r.
C36_IsMean(avg, r) ==
  LET A == {i \in Stages : r[i] # 0}
  IN  A # {} /\ avg * Cardinality(A) = Scale * C36_Sum(r, A)

\* C36: a non-zero average is the mean of the accepted entries that the
\* reading array holds at that moment, and lies in 40..220 (heart rate) or
\* 80..100 (saturation).
C36_AverageIsMeanOfAccepted ==
  /\ (avgHR # 0)
       => (/\ C36_IsMean(avgHR, hrReadings)
           /\ 40 * Scale <= avgHR /\ avgHR <= 220 * Scale)
  /\ (avgSpO2 # 0)
       => (/\ C36_IsMean(avgSpO2, spo2Readings)
           /\ 80 * Scale <= avgSpO2 /\ avgSpO2 <= 100 * Scale)

\* A completed session in which one stage's heart rate was rejected: the
\* average is over the four accepted stages; a Status request was served.
C36_Witness ==
  /\ pc = "hold_ret"
  /\ ~running
  /\ response.op = "data"
  /\ validHRCount = TOTAL_SAMPLES - 1
  /\ avgHR = 72 * Scale
  /\ avgSpO2 = 98 * Scale

\* C39: in the sensor-error loop, once a Begin and then a Cancel have been
\* served (a session is marked running and a cancel is pending), running
\* eventually becomes false again.
C39_ErrorLoopRecovers ==
  (pc \in ErrPcs /\ running /\ cancelRequested) ~> ~running

\* C37: the records collection never holds more documents than the Start
\* button has been pressed (at most one record per press).
C37_OneRecordPerPress == Len(records) <= presses

\* C38: from the press of Cancel until the next press of Start no snapshot
\* is handed to the backend and, once the display has been cleared, it
\* stays cleared.
C38_CancelDiscardsMeasurement ==
  [][(cancelled /\ cancelled')
       => (/\ Len(saves') <= Len(saves)
           /\ (data = <<>>) => (data' = <<>>))]_vars

\* All the calls of fn made so far failed.
C33_AllFailed == \A k \in DOMAIN attempts : ~attempts[k].ok

\* C33: with retries >= 1, fn is called at most retries times; a settled
\* withRetry either returns the value of its last call, which is the first
\* that succeeded, or, after exactly retries calls that all failed, rejects
\* with the error of the last one; and it has waited delayMs once for each
\* failed call that was followed by another turn.
C33_RetryContract ==
  (retries >= 1)
    => (/\ Len(attempts) <= retries
        /\ (retryPc = "done")
             => (/\ outcome = <<attempts[Len(attempts)]>>
                 /\ \A k \in 1..(Len(attempts) - 1) : ~attempts[k].ok
                 /\ ~outcome[1].ok => (Len(attempts) = retries)
                 /\ waited = delayMs * (Len(attempts) - 1))
        /\ (retryPc # "done")
             => (/\ outcome = <<>>
                 /\ C33_AllFailed
                 /\ waited = delayMs * attempt
                 /\ Len(attempts) =
                      attempt + (IF retryPc = "delay" THEN 1 ELSE 0)))

\* Three attempts: two failures, each followed by a wait, then a success.
C33_Witness ==
  /\ retries = 3 /\ delayMs = 500
  /\ retryPc = "done"
  /\ Len(attempts) = 3
  /\ outcome = <<Ok("v1")>>
  /\ waited = 1000

\* C34: for a reading with heartRate > 0 and spo2 > 0, assess returns its
\* Normal label exactly when the firmware's rule (spo2 >= 95 and
\* 60 <= heartRate <= 100) gives "Normal".
C34_AssessAgreesOnNormal ==
  (assessment # <<>> /\ reading.heartRate > 0 /\ reading.spo2 > 0)
    => ((assessment[1].label = "Normal")
          <=> (reading.spo2 >= 95 /\ reading.heartRate >= 60
                 /\ reading.heartRate <= 100))

====
